---------------------------- MODULE Spec2Model ----------------------------
(***************************************************************************)
(* A model of libpulse-futures: the adapters that turn the callback-driven *)
(* PulseAudio client API into futures and streams.                         *)
(*                                                                         *)
(*   src/src/context.rs       Context, ContextFuture, Subscription         *)
(*   src/src/operation.rs     Value (the result cell), OperationFuture     *)
(*   src/src/introspector.rs  Introspector (the request constructors)      *)
(*                                                                         *)
(* The module has three groups of state, one per adapter, and these        *)
(* specifications:                                                         *)
(*   SpecSub  the change subscription stream (Context::subscribe and       *)
(*            Subscription::poll_next),                                    *)
(*   SpecCtx  connections and their ContextFuture,                         *)
(*   SpecOp   one OperationFuture, its result cell and the main loop it    *)
(*            iterates,                                                    *)
(*   SpecLoop an OperationFuture next to a ContextFuture on the host loop. *)
(*   SpecDrop a Context disconnected and dropped while futures and        *)
(*            streams built from it are alive,                             *)
(*   SpecLive one task polled by an executor only when it was woken, with  *)
(*            fairness of the host loop and of the executor,               *)
(*   SpecOutlive a ContextFuture awaited while its Context is disconnected *)
(*            or dropped, under the same fairness.                         *)
(* The PulseAudio library and the glib host loop are the environment: the  *)
(* callbacks they invoke and the state changes they make are actions whose *)
(* inputs are chosen with \E.                                              *)
(***************************************************************************)
EXTENDS Naturals, Sequences, FiniteSets

(***************************************************************************)
(* Bounds of the model.                                                    *)
(***************************************************************************)
\* Change notifications delivered by the library, over all subscriptions.
MaxEvents == 3
\* Wake closures waiting in the host loop's idle queue.
MaxIdle == 2
\* Polls after a rejected enable request whose results are recorded.
MaxTrack == 2
\* Items the library delivers to one list request.
MaxItems == 2
\* Callbacks one iteration of the main loop invokes.
MaxBatch == 1

(***************************************************************************)
(* Option<T>: None is the empty sequence, Some(x) the one-element one.      *)
(***************************************************************************)
None == << >>
Some(x) == << x >>
IsSome(o) == Len(o) = 1
\* Option::unwrap, defined on Some only (the code panics on None).
Unwrap(o) == o[1]

(***************************************************************************)
(* Poll<..> values.  Every value is <<tag, payload>> with the payload a     *)
(* sequence, so that any two of them can be compared.                      *)
(***************************************************************************)
NotPolled == <<"NotPolled", << >> >>
Pending == <<"Pending", << >> >>
\* Poll::Ready(None) of a stream: the end of the stream.
ReadyNone == <<"ReadyNone", << >> >>
\* Poll::Ready(Some(Ok(e))) of a stream, Poll::Ready(Ok(v)) of a future.
ReadyOk(v) == <<"ReadyOk", << v >> >>
\* Poll::Ready(Some(Err(()))) of a stream, Poll::Ready(Err(())) of a future.
ReadyErr == <<"ReadyErr", << >> >>
\* The poll did not return: an unwrap of None unwound the task.
Panicked == <<"Panicked", << >> >>

IsReadyOk(r) == r[1] = "ReadyOk"

(***************************************************************************)
(* The result cell, operation.rs: struct Value<T> { error, value }.        *)
(***************************************************************************)
ValueNew(value) == [error |-> FALSE, value |-> value]

(***************************************************************************)
(* The change notifications the library can deliver: (facility,            *)
(* operation, index).                                                      *)
(***************************************************************************)
Events == { <<"Sink", "New", 0>>, <<"Sink", "Removed", 1>> }

VARIABLES
    \* ---- the single task that polls every future and stream
    idle,                \* wake closures queued on the host MainContext
    woken,               \* the task's waker was invoked since its last poll
    \* ---- Context::subscribe / Subscription
    subs,                \* the Subscription objects, in order of creation
    subscribe_callback,  \* index of the subscription whose queue the
                         \* registered change callback fills; 0: none set
    subOps,              \* per subscription, the state of its enable request
    subLog               \* per subscription, history: the callback
                         \* invocations, the items yielded, the last result

VARIABLES
    \* ---- Context / ContextFuture
    contexts,            \* per connection: the library's connection state,
                         \* whether the owning Context is alive or dropped,
                         \* whether connect() has returned a ContextFuture
    ctxLog               \* per connection, history: the state read by the
                         \* last poll of its ContextFuture and its result

VARIABLES
    \* ---- Introspector / OperationFuture
    operation,           \* the pending operation: the request that issued it
                         \* and its state in the library; kind "none": no
                         \* request has been issued
    result,              \* the result cell shared by the future and the
                         \* request's callback
    opLog                \* history of the operation and of the future's polls

taskVars == <<idle, woken>>
subVars == <<subs, subscribe_callback, subOps, subLog>>
ctxVars == <<contexts, ctxLog>>
opVars == <<operation, result, opLog>>
vars == <<taskVars, subVars, ctxVars, opVars>>

(***************************************************************************)
(* The host loop (glib MainContext).                                       *)
(***************************************************************************)
\* A poll that drops the wake closure instead of queueing it.
InvokeLocalWakeLost(q) == q

\* c.invoke_local_with_priority(PRIORITY_DEFAULT_IDLE, move || waker.wake..)
InvokeLocalWake(q) == q + 1

\* The host loop runs one queued idle closure: it wakes the task.
HostLoopIdle ==
    /\ idle > 0
    /\ idle' = idle - 1
    /\ woken' = TRUE
    /\ UNCHANGED <<subVars, ctxVars, opVars>>

(***************************************************************************)
(* Context::subscribe and its two callbacks.                               *)
(***************************************************************************)
\* invoked: the events the change callback was invoked with, in order;
\* yielded: the items poll_next returned, in order; last: the result of the
\* last poll_next; enabled: the argument of the enable request's success
\* callback; after: the results of the first polls after a rejection.
NewLog == [invoked |-> << >>, yielded |-> << >>, last |-> NotPolled,
           enabled |-> "not called", after |-> << >>]

\* The subscriptions of the program: subscribe is called at most twice, the
\* second call while the first Subscription is still alive.
SubscriptionIds == {1, 2}

\* let events = Rc::new(RefCell::new(Value::new(Some(VecDeque::new()))));
\* Subscription { error_returned: false, events }
NewSubscription == [error_returned |-> FALSE, events |-> ValueNew(Some(<< >>))]

\* A subscribe that leaves a change callback that is already registered.
SubscribeKeepCallback ==
    /\ Len(subs) + 1 \in SubscriptionIds
    /\ subs' = Append(subs, NewSubscription)
    /\ subscribe_callback' = IF subscribe_callback = 0
                             THEN Len(subs) + 1 ELSE subscribe_callback
    /\ subOps' = Append(subOps, "Running")
    /\ subLog' = Append(subLog, NewLog)
    /\ UNCHANGED <<taskVars, ctxVars, opVars>>

\* Context::subscribe: a fresh queue, the change callback replaced by one
\* that fills it, and the enable request issued.
Subscribe ==
    /\ Len(subs) + 1 \in SubscriptionIds
    /\ subs' = Append(subs, NewSubscription)
    /\ subscribe_callback' = Len(subs) + 1
    /\ subOps' = Append(subOps, "Running")
    /\ subLog' = Append(subLog, NewLog)
    /\ UNCHANGED <<taskVars, ctxVars, opVars>>

\* A change callback that queues the newest event first.
PushFront(events, e) == [events EXCEPT !.value = Some(<<e>> \o Unwrap(@))]

\* The closure given to set_subscribe_callback:
\* events.borrow_mut().value.as_mut().unwrap().push_back((facility, ..))
PushBack(events, e) == [events EXCEPT !.value = Some(Append(Unwrap(@), e))]

RECURSIVE TotalInvoked(_)
TotalInvoked(log) ==
    IF log = << >> THEN 0 ELSE Len(Head(log).invoked) + TotalInvoked(Tail(log))

\* The library invokes the registered change callback with one event.
ChangeNotification(e) ==
    /\ subscribe_callback # 0
    /\ TotalInvoked(subLog) < MaxEvents
    /\ LET i == subscribe_callback IN
        /\ subs' = [subs EXCEPT ![i].events = PushBack(@, e)]
        /\ subLog' = [subLog EXCEPT ![i].invoked = Append(@, e)]
    /\ UNCHANGED <<taskVars, ctxVars, opVars, subscribe_callback, subOps>>

\* A success callback that sets the flag on success instead of on failure.
EnableCallbackInverted(events, success) ==
    IF success THEN [events EXCEPT !.error = TRUE] ELSE events

\* The closure given to context.subscribe(mask, ..):
\* if !success { events.borrow_mut().error = true; }
EnableCallback(events, success) ==
    IF ~success THEN [events EXCEPT !.error = TRUE] ELSE events

\* The library completes the enable request of subscription i and invokes
\* its success callback, once.
SubscribeComplete(i, success) ==
    /\ subOps[i] = "Running"
    /\ subOps' = [subOps EXCEPT ![i] = "Done"]
    /\ subs' = [subs EXCEPT ![i].events = EnableCallback(@, success)]
    /\ subLog' = [subLog EXCEPT ![i].enabled = IF success THEN "true" ELSE "false"]
    /\ UNCHANGED <<taskVars, ctxVars, opVars, subscribe_callback>>

(***************************************************************************)
(* Subscription::poll_next.                                                *)
(***************************************************************************)
\* A poll_next that yields the error item without recording that it did.
PollNextForgetful(self) ==
    IF self.error_returned
    THEN [self |-> self, ret |-> ReadyNone]
    ELSE IF self.events.error
    THEN [self |-> self, ret |-> ReadyErr]
    ELSE LET queue == Unwrap(self.events.value) IN
         IF queue # << >>
         THEN [self |-> [self EXCEPT !.events.value = Some(Tail(queue))],
               ret |-> ReadyOk(Head(queue))]
         ELSE [self |-> self, ret |-> Pending]

\* A poll_next that yields the queued events before it looks at the error
\* flag.
PollNextDrainFirst(self) ==
    IF self.error_returned
    THEN [self |-> self, ret |-> ReadyNone]
    ELSE LET queue == Unwrap(self.events.value) IN
         IF queue # << >>
         THEN [self |-> [self EXCEPT !.events.value = Some(Tail(queue))],
               ret |-> ReadyOk(Head(queue))]
         ELSE IF self.events.error
         THEN [self |-> [self EXCEPT !.error_returned = TRUE], ret |-> ReadyErr]
         ELSE [self |-> self, ret |-> Pending]

\* A poll_next that ends the stream when it finds the queue empty.
PollNextEndsOnEmpty(self) ==
    IF self.error_returned
    THEN [self |-> self, ret |-> ReadyNone]
    ELSE IF self.events.error
    THEN [self |-> [self EXCEPT !.error_returned = TRUE], ret |-> ReadyErr]
    ELSE LET queue == Unwrap(self.events.value) IN
         IF queue # << >>
         THEN [self |-> [self EXCEPT !.events.value = Some(Tail(queue))],
               ret |-> ReadyOk(Head(queue))]
         ELSE [self |-> self, ret |-> ReadyNone]

\* The body after the wake is scheduled: the subscription as the poll
\* leaves it, and the value returned.
PollNext(self) ==
    IF self.error_returned
    THEN [self |-> self, ret |-> ReadyNone]
    ELSE IF self.events.error
    THEN [self |-> [self EXCEPT !.error_returned = TRUE], ret |-> ReadyErr]
    ELSE LET queue == Unwrap(self.events.value) IN
         IF queue # << >>
         THEN [self |-> [self EXCEPT !.events.value = Some(Tail(queue))],
               ret |-> ReadyOk(Head(queue))]
         ELSE [self |-> self, ret |-> Pending]

\* Whether the enable request of subscription i was rejected.
Rejected(i) == subLog[i].enabled = "false"

\* The history a poll of subscription i leaves when it returns ret.
Logged(log, ret, rejected) ==
    [log EXCEPT
        !.last = ret,
        !.yielded = IF ret[1] \in {"ReadyOk", "ReadyErr"}
                    THEN Append(@, ret) ELSE @,
        !.after = IF rejected /\ Len(@) < MaxTrack THEN Append(@, ret) ELSE @]

SubscriptionPollNext(i) ==
    /\ idle < MaxIdle
    /\ idle' = InvokeLocalWake(idle)
    /\ woken' = FALSE
    /\ LET r == PollNext(subs[i]) IN
        /\ subs' = [subs EXCEPT ![i] = r.self]
        /\ subLog' = [subLog EXCEPT ![i] = Logged(@, r.ret, Rejected(i))]
    /\ UNCHANGED <<ctxVars, opVars, subscribe_callback, subOps>>

(***************************************************************************)
(* Context: connect, disconnect, drop.                                     *)
(***************************************************************************)
\* The connections of the program.
Contexts == {"a", "b"}

\* libpulse_binding::context::State.
ContextStates == {"Unconnected", "Connecting", "Authorizing", "SettingName",
                  "Ready", "Failed", "Terminated"}

\* The unit value ().
Unit == "()"

\* Context::new_with_proplist: a connection that is not connected yet.
\* droppedIn is history: the state the connection was in when its owner
\* was dropped.
NewContext == [state |-> "Unconnected", owner |-> "alive", future |-> FALSE,
               droppedIn |-> "not dropped"]

\* Context::connect: the library starts connecting (the call is valid on an
\* unconnected connection only; its failure panics in expect) and a
\* ContextFuture sharing the connection is returned.
Connect(c) ==
    /\ contexts[c].owner = "alive"
    /\ contexts[c].state = "Unconnected"
    /\ contexts' = [contexts EXCEPT ![c].state = "Connecting", ![c].future = TRUE]
    /\ UNCHANGED <<taskVars, subVars, opVars, ctxLog>>

\* The library moves a connection forward while the loop runs, or fails it.
LibraryStateChange(c) ==
    /\ \E next \in ContextStates :
        /\ \/ contexts[c].state = "Connecting" /\ next \in {"Authorizing", "Failed"}
           \/ contexts[c].state = "Authorizing" /\ next \in {"SettingName", "Failed"}
           \/ contexts[c].state = "SettingName" /\ next \in {"Ready", "Failed"}
           \/ contexts[c].state = "Ready" /\ next = "Failed"
        /\ contexts' = [contexts EXCEPT ![c].state = next]
    /\ UNCHANGED <<taskVars, subVars, opVars, ctxLog>>

\* self.context.borrow_mut().disconnect(): a connection that is being set
\* up or is ready becomes Terminated, any other is left as it is.
ContextDisconnect(state) ==
    IF state \in {"Connecting", "Authorizing", "SettingName", "Ready"}
    THEN "Terminated" ELSE state

\* Context::disconnect.
Disconnect(c) ==
    /\ contexts[c].owner = "alive"
    /\ contexts' = [contexts EXCEPT ![c].state = ContextDisconnect(@)]
    /\ UNCHANGED <<taskVars, subVars, opVars, ctxLog>>

\* A drop that disconnects every connection of the program.
DropContextAll(c) ==
    /\ contexts[c].owner = "alive"
    /\ contexts' = [d \in Contexts |->
                       IF d = c
                       THEN [contexts[d] EXCEPT !.state = ContextDisconnect(@),
                                                !.owner = "dropped",
                                                !.droppedIn = contexts[d].state]
                       ELSE [contexts[d] EXCEPT !.state = ContextDisconnect(@)]]
    /\ UNCHANGED <<taskVars, subVars, opVars, ctxLog>>

\* A drop that releases the owner and leaves the connection as it is.
DropContextForget(c) ==
    /\ contexts[c].owner = "alive"
    /\ contexts' = [contexts EXCEPT ![c].owner = "dropped",
                                    ![c].droppedIn = contexts[c].state]
    /\ UNCHANGED <<taskVars, subVars, opVars, ctxLog>>

\* Drop for Context: self.disconnect().
DropContext(c) ==
    /\ contexts[c].owner = "alive"
    /\ contexts' = [contexts EXCEPT ![c].state = ContextDisconnect(@),
                                    ![c].owner = "dropped",
                                    ![c].droppedIn = contexts[c].state]
    /\ UNCHANGED <<taskVars, subVars, opVars, ctxLog>>

(***************************************************************************)
(* ContextFuture::poll.                                                    *)
(***************************************************************************)
\* A match that treats a terminated connection as one still connecting.
ContextFutureMatchNoTerminated(state) ==
    CASE state = "Ready" -> ReadyOk(Unit)
      [] state = "Failed" -> ReadyErr
      [] OTHER -> Pending

\* match self.context.borrow().get_state() { .. }
ContextFutureMatch(state) ==
    CASE state = "Ready" -> ReadyOk(Unit)
      [] state \in {"Failed", "Terminated"} -> ReadyErr
      [] OTHER -> Pending

\* A future that holds the state its connection had when connect
\* returned, instead of a handle to the connection.
ContextFuturePollSnapshot(c) ==
    /\ contexts[c].future
    /\ idle < MaxIdle
    /\ idle' = InvokeLocalWake(idle)
    /\ woken' = FALSE
    /\ ctxLog' = [ctxLog EXCEPT ![c] = [read |-> "Connecting",
                                        last |-> ContextFutureMatch("Connecting")]]
    /\ UNCHANGED <<subVars, opVars, contexts>>

\* ContextFuture { context: self.context.clone() } polled: the state is
\* read through the shared handle.
ContextFuturePoll(c) ==
    /\ contexts[c].future
    /\ idle < MaxIdle
    /\ idle' = InvokeLocalWake(idle)
    /\ woken' = FALSE
    /\ ctxLog' = [ctxLog EXCEPT ![c] = [read |-> contexts[c].state,
                                        last |-> ContextFutureMatch(contexts[c].state)]]
    /\ UNCHANGED <<subVars, opVars, contexts>>

(***************************************************************************)
(* Introspector: the requests and their callbacks.                         *)
(***************************************************************************)
\* The sinks the library can report (introspect::SinkInfo, borrowed).
Sinks == { [name |-> Some("alsa_output"), index |-> 0],
           [name |-> None, index |-> 1] }

\* The server record the library can report (introspect::ServerInfo).
Servers == { [server_name |-> Some("pulseaudio"), cookie |-> 7] }

\* impl From<&introspect::SinkInfo> for SinkInfo: the fields, owned.
SinkInfoFrom(item) == [name |-> item.name, index |-> item.index]

\* impl From<&introspect::ServerInfo> for ServerInfo: the fields, owned.
ServerInfoFrom(info) == [server_name |-> info.server_name, cookie |-> info.cookie]

ListRequests == {"get_sink_info_list", "get_sink_info_by_name"}
Mutations == {"set_sink_volume_by_index", "set_sink_volume_by_name",
              "set_sink_mute_by_index", "set_sink_mute_by_name",
              "set_sink_port_by_index", "set_sink_port_by_name"}

\* The cell each request starts with.
\* get_sink_info_list: Value::new(Some(vec![]))
SinkInfoListCell == ValueNew(Some(<< >>))
\* A by-name cell that starts empty, like the one of get_server_info.
SinkInfoByNameCellEmpty == ValueNew(None)
\* get_sink_info_by_name: Value::new(Some(None))
SinkInfoByNameCell == ValueNew(Some(None))
\* get_server_info: Value::new(None)
ServerInfoCell == ValueNew(None)
\* the six set_sink_* requests: Value::new(Some(()))
MutationCell == ValueNew(Some(Unit))

\* A request is issued on a ready connection (the library returns no
\* operation otherwise, and the binding panics): the operation is running
\* and the future holds the fresh cell.
IssueRequest(kind, cell) ==
    /\ operation.kind = "none"
    /\ contexts["a"].state = "Ready"
    /\ operation' = [kind |-> kind, state |-> "Running"]
    /\ result' = cell
    /\ UNCHANGED <<taskVars, subVars, ctxVars, opLog>>

GetSinkInfoList == IssueRequest("get_sink_info_list", SinkInfoListCell)
GetSinkInfoByName == IssueRequest("get_sink_info_by_name", SinkInfoByNameCell)
GetServerInfo == IssueRequest("get_server_info", ServerInfoCell)
SetSinkVolumeByIndex == IssueRequest("set_sink_volume_by_index", MutationCell)
SetSinkVolumeByName == IssueRequest("set_sink_volume_by_name", MutationCell)
SetSinkMuteByIndex == IssueRequest("set_sink_mute_by_index", MutationCell)
SetSinkMuteByName == IssueRequest("set_sink_mute_by_name", MutationCell)
SetSinkPortByIndex == IssueRequest("set_sink_port_by_index", MutationCell)
SetSinkPortByName == IssueRequest("set_sink_port_by_name", MutationCell)

\* A list callback that puts each item in front of the ones before it.
SinkInfoListCallbackPrepend(cell, list) ==
    CASE list[1] = "Item" ->
            [cell EXCEPT !.value = Some(<<SinkInfoFrom(list[2])>> \o Unwrap(@))]
      [] list[1] = "Error" -> [cell EXCEPT !.error = TRUE]
      [] list[1] = "End" -> cell

\* A list callback that handles End the way it handles Error.
SinkInfoListCallbackEndFails(cell, list) ==
    CASE list[1] = "Item" ->
            [cell EXCEPT !.value = Some(Append(Unwrap(@), SinkInfoFrom(list[2])))]
      [] list[1] = "Error" -> [cell EXCEPT !.error = TRUE]
      [] list[1] = "End" -> [cell EXCEPT !.error = TRUE]

\* The closure of get_sink_info_list, on ListResult::Item / Error / End.
SinkInfoListCallback(cell, list) ==
    CASE list[1] = "Item" ->
            [cell EXCEPT !.value = Some(Append(Unwrap(@), SinkInfoFrom(list[2])))]
      [] list[1] = "Error" -> [cell EXCEPT !.error = TRUE]
      [] list[1] = "End" -> cell

\* The closure of get_sink_info_by_name: the item replaces the option.
SinkInfoByNameCallback(cell, list) ==
    CASE list[1] = "Item" ->
            [cell EXCEPT !.value = Some(Some(SinkInfoFrom(list[2])))]
      [] list[1] = "Error" -> [cell EXCEPT !.error = TRUE]
      [] list[1] = "End" -> cell

\* The closure of get_server_info: result.borrow_mut().value = Some(info.into())
ServerInfoCallback(cell, info) == [cell EXCEPT !.value = Some(ServerInfoFrom(info))]

\* A completion callback that takes success for failure.
SuccessCallbackInverted(cell, success) == [cell EXCEPT !.error = success]

\* The closure of the set_sink_* requests: result.borrow_mut().error = !success
SuccessCallback(cell, success) == [cell EXCEPT !.error = ~success]

(***************************************************************************)
(* The library's side of a pending operation.  An event is <<tag, arg>>:   *)
(* a callback invocation (Item, Error, End, Info, Success) or the          *)
(* operation's own state change (Done, Cancelled).                         *)
(***************************************************************************)
\* The callback invocations of a request of this kind.
CallbackEvents(kind) ==
    CASE kind \in ListRequests ->
            {<<"Item", x>> : x \in Sinks} \cup {<<"Error", Unit>>, <<"End", Unit>>}
      [] kind = "get_server_info" -> {<<"Info", x>> : x \in Servers}
      [] kind \in Mutations -> {<<"Success", b>> : b \in BOOLEAN}
      [] OTHER -> {}

\* The state changes of a running operation (operation::State).
StateChanges == {<<"Done", Unit>>, <<"Cancelled", Unit>>}

OpEvents(kind) == CallbackEvents(kind) \cup StateChanges

\* st is [operation, result, log].  Callbacks are invoked on a running
\* operation only; a list ends with End or Error; the callback of a scalar
\* or mutation request is invoked at most once.
EventEnabled(st, ev) ==
    /\ st.operation.state = "Running"
    /\ ev \in OpEvents(st.operation.kind)
    /\ CASE ev[1] = "Item" -> st.log.eol = "no" /\ Len(st.log.items) < MaxItems
         [] ev[1] \in {"Error", "End"} -> st.log.eol = "no"
         [] ev[1] \in {"Info", "Success"} -> st.log.called = "not called"
         [] OTHER -> TRUE

\* The cell after the request's callback ran on a callback event.
Callback(kind, cell, ev) ==
    CASE kind = "get_sink_info_list" -> SinkInfoListCallback(cell, ev)
      [] kind = "get_sink_info_by_name" -> SinkInfoByNameCallback(cell, ev)
      [] kind = "get_server_info" -> ServerInfoCallback(cell, ev[2])
      [] kind \in Mutations -> SuccessCallback(cell, ev[2])

Apply(st, ev) ==
    IF ev[1] \in {"Done", "Cancelled"}
    THEN [st EXCEPT !.operation.state = ev[1]]
    ELSE [st EXCEPT
            !.result = Callback(st.operation.kind, @, ev),
            !.log.items = IF ev[1] = "Item" THEN Append(@, SinkInfoFrom(ev[2])) ELSE @,
            !.log.eol = IF ev[1] \in {"Error", "End"} THEN ev[1] ELSE @,
            !.log.called = CASE ev[1] = "Info" -> "called"
                             [] ev[1] = "Success" -> IF ev[2] THEN "true" ELSE "false"
                             [] OTHER -> @]

RECURSIVE CanRun(_, _)
CanRun(st, batch) ==
    IF batch = << >> THEN TRUE
    ELSE /\ EventEnabled(st, Head(batch))
         /\ CanRun(Apply(st, Head(batch)), Tail(batch))

RECURSIVE Run(_, _)
Run(st, batch) ==
    IF batch = << >> THEN st ELSE Run(Apply(st, Head(batch)), Tail(batch))

\* What one iteration of the loop can dispatch: some callbacks, and after
\* them possibly the state change that ends the operation.
Batches(kind) ==
    {cbs \o end :
        cbs \in UNION {[1..n -> CallbackEvents(kind)] : n \in 0..MaxBatch},
        end \in {<< >>} \cup {<<e>> : e \in StateChanges}}

Current == [operation |-> operation, result |-> result, log |-> opLog]

\* The loop is iterated outside the future's poll (by the host, or by
\* another future of the same loop) and dispatches one event.
Dispatch(ev) ==
    /\ operation.kind # "none"
    /\ EventEnabled(Current, ev)
    /\ LET st == Apply(Current, ev) IN
        /\ operation' = st.operation
        /\ result' = st.result
        /\ opLog' = st.log
    /\ UNCHANGED <<taskVars, subVars, ctxVars>>

(***************************************************************************)
(* OperationFuture::poll.                                                  *)
(***************************************************************************)
\* IterateResult of mainloop.iterate(false).
IterateResults == {"Success", "Quit", "Err"}

\* A poll that looks at the operation whatever the loop reported.
OperationPollIgnoreLoop(cell, state, iter) ==
    CASE state = "Running" -> [cell |-> cell, ret |-> Pending, took |-> FALSE]
      [] state = "Done" ->
            IF cell.error
            THEN [cell |-> cell, ret |-> ReadyErr, took |-> FALSE]
            ELSE IF IsSome(cell.value)
            THEN [cell |-> [cell EXCEPT !.value = None],
                  ret |-> ReadyOk(Unwrap(cell.value)), took |-> TRUE]
            ELSE [cell |-> cell, ret |-> Panicked, took |-> FALSE]
      [] state = "Cancelled" -> [cell |-> cell, ret |-> ReadyErr, took |-> FALSE]

\* A poll that does not check the cell's error flag.
OperationPollIgnoreError(cell, state, iter) ==
    IF iter \in {"Quit", "Err"}
    THEN [cell |-> cell, ret |-> ReadyErr, took |-> FALSE]
    ELSE CASE state = "Running" -> [cell |-> cell, ret |-> Pending, took |-> FALSE]
           [] state = "Done" ->
                IF IsSome(cell.value)
                THEN [cell |-> [cell EXCEPT !.value = None],
                      ret |-> ReadyOk(Unwrap(cell.value)), took |-> TRUE]
                ELSE [cell |-> cell, ret |-> Panicked, took |-> FALSE]
           [] state = "Cancelled" -> [cell |-> cell, ret |-> ReadyErr, took |-> FALSE]

\* A poll that returns a copy of the value and leaves it in the cell.
OperationPollClone(cell, state, iter) ==
    IF iter \in {"Quit", "Err"}
    THEN [cell |-> cell, ret |-> ReadyErr, took |-> FALSE]
    ELSE CASE state = "Running" -> [cell |-> cell, ret |-> Pending, took |-> FALSE]
           [] state = "Done" ->
                IF cell.error
                THEN [cell |-> cell, ret |-> ReadyErr, took |-> FALSE]
                ELSE IF IsSome(cell.value)
                THEN [cell |-> cell,
                      ret |-> ReadyOk(Unwrap(cell.value)), took |-> FALSE]
                ELSE [cell |-> cell, ret |-> Panicked, took |-> FALSE]
           [] state = "Cancelled" -> [cell |-> cell, ret |-> ReadyErr, took |-> FALSE]

\* A poll that resets the error flag when it reports the failure.
OperationPollClearsError(cell, state, iter) ==
    IF iter \in {"Quit", "Err"}
    THEN [cell |-> cell, ret |-> ReadyErr, took |-> FALSE]
    ELSE CASE state = "Running" -> [cell |-> cell, ret |-> Pending, took |-> FALSE]
           [] state = "Done" ->
                IF cell.error
                THEN [cell |-> [cell EXCEPT !.error = FALSE],
                      ret |-> ReadyErr, took |-> FALSE]
                ELSE IF IsSome(cell.value)
                THEN [cell |-> [cell EXCEPT !.value = None],
                      ret |-> ReadyOk(Unwrap(cell.value)), took |-> TRUE]
                ELSE [cell |-> cell, ret |-> Panicked, took |-> FALSE]
           [] state = "Cancelled" -> [cell |-> cell, ret |-> ReadyErr, took |-> FALSE]

\* The body after the loop was iterated: the cell as the poll leaves it, the
\* value returned and whether take() moved a value out.
OperationPoll(cell, state, iter) ==
    IF iter \in {"Quit", "Err"}
    THEN [cell |-> cell, ret |-> ReadyErr, took |-> FALSE]
    ELSE CASE state = "Running" -> [cell |-> cell, ret |-> Pending, took |-> FALSE]
           [] state = "Done" ->
                IF cell.error
                THEN [cell |-> cell, ret |-> ReadyErr, took |-> FALSE]
                ELSE IF IsSome(cell.value)
                THEN [cell |-> [cell EXCEPT !.value = None],
                      ret |-> ReadyOk(Unwrap(cell.value)), took |-> TRUE]
                ELSE [cell |-> cell, ret |-> Panicked, took |-> FALSE]
           [] state = "Cancelled" -> [cell |-> cell, ret |-> ReadyErr, took |-> FALSE]

\* What the poll read after the iteration: nothing when the loop failed.
NotSeen == [state |-> "none", cell |-> ValueNew(None)]

\* The history a poll leaves.  last: its result; iter: what iterate
\* returned; seen: the operation state it read, and the cell it read when
\* the operation was done; oks, takes:
\* how often a poll returned a value and how often take() moved one out;
\* pendingAt: the number of items delivered when a poll last returned
\* Pending; phase: never polled, only Pending so far, resolved by the last
\* poll (the first that did not return Pending), or polled again after it.
PollLogged(log, st, iter, r) ==
    [log EXCEPT
        !.last = r.ret,
        !.iter = iter,
        !.seen = IF iter = "Success"
                 THEN [state |-> st.operation.state,
                       cell |-> IF st.operation.state = "Done"
                                THEN st.result ELSE NotSeen.cell]
                 ELSE NotSeen,
        !.oks = IF IsReadyOk(r.ret) THEN @ + 1 ELSE @,
        !.takes = IF r.took THEN @ + 1 ELSE @,
        !.pendingAt = IF r.ret = Pending THEN Some(Len(st.log.items)) ELSE @,
        !.phase = IF @ \in {"never", "pending"}
                  THEN (IF r.ret = Pending THEN "pending" ELSE "resolved")
                  ELSE "again"]

\* A poll that looks at the operation and the cell first and iterates the
\* loop afterwards.
OperationFuturePollCheckFirst ==
    /\ operation.kind # "none"
    /\ opLog.last # Panicked
    /\ woken' = TRUE
    /\ \E iter \in IterateResults, batch \in Batches(operation.kind) :
        /\ CanRun(Current, batch)
        /\ LET r == OperationPoll(result, operation.state, iter)
               st == Run([Current EXCEPT !.result = r.cell], batch)
           IN /\ operation' = st.operation
              /\ result' = st.result
              /\ opLog' = PollLogged(st.log, Current, iter, r)
    /\ UNCHANGED <<idle, subVars, ctxVars>>

\* One poll: wake the task, iterate the loop once (which dispatches what is
\* due), then look at the operation and the cell.
OperationFuturePoll ==
    /\ operation.kind # "none"
    /\ opLog.last # Panicked
    /\ woken' = TRUE
    /\ \E iter \in IterateResults, batch \in Batches(operation.kind) :
        /\ CanRun(Current, batch)
        /\ LET st == Run(Current, batch)
               r == OperationPoll(st.result, st.operation.state, iter)
           IN /\ operation' = st.operation
              /\ result' = r.cell
              /\ opLog' = PollLogged(st.log, st, iter, r)
    /\ UNCHANGED <<idle, subVars, ctxVars>>

(***************************************************************************)
(* Initial states.                                                         *)
(***************************************************************************)
InitTask ==
    /\ idle = 0
    /\ woken = FALSE

InitSubs ==
    /\ subs = << >>
    /\ subscribe_callback = 0
    /\ subOps = << >>
    /\ subLog = << >>

InitContexts ==
    /\ contexts = [c \in Contexts |-> NewContext]
    /\ ctxLog = [c \in Contexts |-> [read |-> "not polled", last |-> NotPolled]]

InitOperation ==
    /\ operation = [kind |-> "none", state |-> "none"]
    /\ result = ValueNew(None)
    /\ opLog = [last |-> NotPolled, iter |-> "not iterated", seen |-> NotSeen,
                items |-> << >>, eol |-> "no", called |-> "not called",
                oks |-> 0, takes |-> 0, pendingAt |-> None, phase |-> "never"]

InitOp == InitTask /\ InitSubs /\ InitContexts /\ InitOperation

InitCtx == InitTask /\ InitSubs /\ InitContexts /\ InitOperation

InitSub == InitTask /\ InitSubs /\ InitContexts /\ InitOperation

(***************************************************************************)
(* SpecSub: the subscription stream.                                       *)
(***************************************************************************)
NextSub ==
    \/ Subscribe
    \/ \E e \in Events : ChangeNotification(e)
    \/ \E i \in 1..Len(subs), success \in BOOLEAN : SubscribeComplete(i, success)
    \/ \E i \in 1..Len(subs) : SubscriptionPollNext(i)
    \/ HostLoopIdle

SpecSub == InitSub /\ [][NextSub]_vars

(***************************************************************************)
(* SpecCtx: connections and their ContextFuture.                           *)
(***************************************************************************)
NextCtx ==
    \/ \E c \in Contexts : Connect(c)
    \/ \E c \in Contexts : LibraryStateChange(c)
    \/ \E c \in Contexts : Disconnect(c)
    \/ \E c \in Contexts : DropContext(c)
    \/ \E c \in Contexts : ContextFuturePoll(c)
    \/ HostLoopIdle

SpecCtx == InitCtx /\ [][NextCtx]_vars

(***************************************************************************)
(* SpecOp: connection "a" and one request issued on it, with the           *)
(* OperationFuture that iterates the main loop.                            *)
(***************************************************************************)
NextOp ==
    \/ Connect("a")
    \/ LibraryStateChange("a")
    \/ GetSinkInfoList
    \/ GetSinkInfoByName
    \/ GetServerInfo
    \/ SetSinkVolumeByIndex
    \/ SetSinkVolumeByName
    \/ SetSinkMuteByIndex
    \/ SetSinkMuteByName
    \/ SetSinkPortByIndex
    \/ SetSinkPortByName
    \/ \E ev \in OpEvents(operation.kind) : Dispatch(ev)
    \/ OperationFuturePoll

SpecOp == InitOp /\ [][NextOp]_vars

(***************************************************************************)
(* SpecLoop: the ContextFuture of connection "a", woken through the host   *)
(* loop, polled next to an OperationFuture that drives the main loop       *)
(* itself: a list request, a scalar request or a mutation, whose callbacks *)
(* are dispatched by the iterations of its polls.                          *)
(***************************************************************************)
NextLoop ==
    \/ Connect("a")
    \/ LibraryStateChange("a")
    \/ ContextFuturePoll("a")
    \/ HostLoopIdle
    \/ GetSinkInfoList
    \/ GetServerInfo
    \/ SetSinkMuteByIndex
    \/ OperationFuturePoll

SpecLoop == InitOp /\ [][NextLoop]_vars

(***************************************************************************)
(* SpecDrop: connection "a" disconnected and dropped while its             *)
(* ContextFuture, an OperationFuture and Subscriptions built from it are   *)
(* alive.                                                                  *)
(***************************************************************************)
NextDrop ==
    \/ Connect("a")
    \/ LibraryStateChange("a")
    \/ Disconnect("a")
    \/ DropContext("a")
    \/ ContextFuturePoll("a")
    \/ HostLoopIdle
    \/ GetServerInfo
    \/ OperationFuturePoll
    \/ (contexts["a"].state = "Ready" /\ contexts["a"].owner = "alive" /\ Subscribe)
    \/ \E i \in 1..Len(subs) : SubscriptionPollNext(i)

SpecDrop == InitOp /\ [][NextDrop]_vars

(***************************************************************************)
(* SpecLive: a client program as one task under an executor.  The task     *)
(* awaits connect, then set_sink_mute_by_index, then subscribes and awaits *)
(* the stream's items one after the other (the shape of the example        *)
(* program, example/src/main.rs).  The executor polls the task when        *)
(* its waker was invoked; a future is polled for the first time, and the   *)
(* stream again after an item, in the poll that reached it.                *)
(***************************************************************************)
\* context.connect(None, flags::NOFLAGS, None).await
TaskPollContextFuture ==
    /\ ctxLog["a"].last \in {NotPolled, Pending}
    /\ woken \/ ctxLog["a"].last = NotPolled
    /\ ContextFuturePoll("a")

\* introspect.set_sink_mute_by_index(..), once connect resolved to Ok.
TaskSetSinkMuteByIndex ==
    /\ ctxLog["a"].last = ReadyOk(Unit)
    /\ SetSinkMuteByIndex

\* introspect.set_sink_mute_by_index(..).await
TaskPollOperation ==
    /\ opLog.last \in {NotPolled, Pending}
    /\ woken \/ opLog.last = NotPolled
    /\ OperationFuturePoll

\* context.subscribe(interest), once the request returned Ok.
TaskSubscribe ==
    /\ IsReadyOk(opLog.last)
    /\ subs = << >>
    /\ Subscribe

\* while let Some(_) = subscription.next().await
TaskPollSubscription ==
    /\ Len(subs) = 1
    /\ subLog[1].last # ReadyNone
    /\ woken \/ subLog[1].last # Pending
    /\ SubscriptionPollNext(1)

NextLive ==
    \/ Connect("a")
    \/ LibraryStateChange("a")
    \/ HostLoopIdle
    \/ TaskPollContextFuture
    \/ TaskSetSinkMuteByIndex
    \/ \E ev \in OpEvents(operation.kind) : Dispatch(ev)
    \/ TaskPollOperation
    \/ TaskSubscribe
    \/ \E e \in Events : ChangeNotification(e)
    \/ \E i \in 1..Len(subs), success \in BOOLEAN : SubscribeComplete(i, success)
    \/ TaskPollSubscription

\* The host loop runs the idle closures it holds, and the executor polls a
\* task whose waker was invoked.
Fairness ==
    /\ WF_vars(HostLoopIdle)
    /\ WF_vars(TaskPollContextFuture)
    /\ WF_vars(TaskPollOperation)
    /\ WF_vars(TaskPollSubscription)

SpecLive == InitOp /\ [][NextLive]_vars /\ Fairness

(***************************************************************************)
(* SpecOutlive: a task that awaits the ContextFuture of connection "a"     *)
(* while the Context is disconnected or dropped elsewhere; connection "b"  *)
(* is set up next to it.  The executor polls the task when it was woken.   *)
(***************************************************************************)
NextOutlive ==
    \/ \E c \in Contexts : Connect(c)
    \/ \E c \in Contexts : LibraryStateChange(c)
    \/ Disconnect("a")
    \/ DropContext("a")
    \/ HostLoopIdle
    \/ TaskPollContextFuture

SpecOutlive == InitCtx /\ [][NextOutlive]_vars /\ Fairness

(***************************************************************************)
(* Claims about the subscription stream.                                   *)
(***************************************************************************)
IsPrefix(s, t) == Len(s) <= Len(t) /\ s = SubSeq(t, 1, Len(s))

RECURSIVE OkEvents(_)
\* The events of the Ok items of a sequence of yielded items.
OkEvents(items) ==
    IF items = << >> THEN << >>
    ELSE IF IsReadyOk(Head(items))
         THEN <<Head(items)[2][1]>> \o OkEvents(Tail(items))
         ELSE OkEvents(Tail(items))

ErrCount(items) == Cardinality({k \in 1..Len(items) : items[k] = ReadyErr})

\* C1: on a subscription whose error flag was never set, the Ok items
\* yielded by poll_next are a prefix of the events the change callback was
\* invoked with, in the same order, and the events not yet yielded are
\* exactly the ones still queued: none is duplicated, reordered or skipped.
C1_Fifo ==
    \A i \in 1..Len(subs) :
        ~subs[i].events.error =>
            /\ IsPrefix(OkEvents(subLog[i].yielded), subLog[i].invoked)
            /\ OkEvents(subLog[i].yielded) \o Unwrap(subs[i].events.value)
                   = subLog[i].invoked

\* Two different events were yielded in order while a third is still queued.
C1_Witness ==
    \E i \in 1..Len(subs) :
        /\ ~subs[i].events.error
        /\ Len(subLog[i].yielded) = 2
        /\ subLog[i].yielded[1] # subLog[i].yielded[2]
        /\ Len(Unwrap(subs[i].events.value)) = 1

\* C2: poll_next yields at most one Err item, the Err item is the last item
\* it ever yields, and every poll after it returns the end of the stream
\* (never Ok, Err or Pending), whatever callbacks fire in between.
C2_IdempotentTermination ==
    \A i \in 1..Len(subs) :
        LET y == subLog[i].yielded IN
        /\ ErrCount(y) <= 1
        /\ ErrCount(y) = 1 =>
              /\ y[Len(y)] = ReadyErr
              /\ subs[i].error_returned
              /\ subLog[i].last \in {ReadyErr, ReadyNone}

\* The stream was polled again after its Err item, with an event queued
\* behind the error.
C2_Witness ==
    \E i \in 1..Len(subs) :
        /\ ErrCount(subLog[i].yielded) = 1
        /\ subLog[i].last = ReadyNone
        /\ Unwrap(subs[i].events.value) # << >>

\* C3: once the success callback of the enable request was invoked with
\* false, the queue's error flag is set, the first poll_next yields the one
\* failure item and the polls after it return the end of the stream.
C3_RejectedEnable ==
    \A i \in 1..Len(subs) :
        Rejected(i) =>
            /\ subs[i].events.error
            /\ \A k \in 1..Len(subLog[i].after) :
                  subLog[i].after[k] = IF k = 1 THEN ReadyErr ELSE ReadyNone

\* A rejected subscription was polled twice after the rejection.
C3_Witness ==
    \E i \in 1..Len(subs) :
        /\ Rejected(i)
        /\ Len(subLog[i].after) >= 2

(***************************************************************************)
(* Claims about the connection future.                                     *)
(***************************************************************************)
\* C8: a poll of ContextFuture returns Ready(Ok) exactly when the state it
\* read is Ready, Ready(Err) exactly when it is Failed or Terminated, and
\* Pending for every other state; nothing else decides the result.
C8_ContextFutureResolution ==
    \A c \in Contexts :
        ctxLog[c].read # "not polled" =>
            /\ ctxLog[c].last = ReadyOk(Unit) <=> ctxLog[c].read = "Ready"
            /\ ctxLog[c].last = ReadyErr <=> ctxLog[c].read \in {"Failed", "Terminated"}
            /\ ctxLog[c].last = Pending <=>
                  ctxLog[c].read \in {"Unconnected", "Connecting", "Authorizing",
                                       "SettingName"}
            /\ ctxLog[c].last \in {ReadyOk(Unit), ReadyErr, Pending}

\* One future was polled on a terminated connection and the other on a
\* ready one.
C8_Witness ==
    /\ ctxLog["a"].read = "Terminated"
    /\ ctxLog["b"].read = "Ready"

(***************************************************************************)
(* Claims about the operation future.                                      *)
(***************************************************************************)
LoopFailed == opLog.iter \in {"Quit", "Err"}

C5_ListResult ==
    (operation.kind = "get_sink_info_list" /\ IsReadyOk(opLog.last)) =>
        opLog.last = ReadyOk(opLog.items)

\* Two different items were returned, the second delivered after a poll
\* that returned Pending with the first one in the cell.
C5_Witness ==
    /\ operation.kind = "get_sink_info_list"
    /\ IsReadyOk(opLog.last)
    /\ Len(opLog.items) = 2
    /\ opLog.items[1] # opLog.items[2]
    /\ opLog.pendingAt = Some(1)

\* C6: a get_sink_info_by_name future whose operation is done without an
\* item and without an error notification resolves to Ok(None).
C6_ByNameMissing ==
    (/\ operation.kind = "get_sink_info_by_name"
     /\ opLog.phase = "resolved"
     /\ opLog.seen.state = "Done"
     /\ opLog.items = << >>
     /\ opLog.eol # "Error") =>
        /\ opLog.last = ReadyOk(None)
        /\ ~result.error

\* The by-name request ended with End alone and the future resolved.
C6_Witness ==
    /\ operation.kind = "get_sink_info_by_name"
    /\ opLog.phase = "resolved"
    /\ opLog.seen.state = "Done"
    /\ opLog.items = << >>
    /\ opLog.eol = "End"

\* C7: for each mutation request, once the completion callback was invoked
\* with false no poll returns a value, the unit value stays in the cell and
\* a poll that finds the operation done returns failure; once it was
\* invoked with true the error flag is clear, the unit value is in the cell
\* until it is taken, and the poll that resolves the future on finding the
\* operation done returns Ok(()).
C7_Mutation ==
    operation.kind \in Mutations =>
        /\ opLog.called = "false" =>
              /\ result.error
              /\ opLog.last \in {NotPolled, Pending, ReadyErr}
              /\ opLog.seen.state = "Done" => opLog.last = ReadyErr
              /\ result.value = Some(Unit)
              /\ opLog.oks = 0 /\ opLog.takes = 0
        /\ opLog.called = "true" =>
              /\ ~result.error
              /\ opLog.takes = 0 => result.value = Some(Unit)
              /\ (opLog.phase = "resolved" /\ opLog.seen.state = "Done") =>
                    opLog.last = ReadyOk(Unit)

\* A mutation whose callback reported false was polled when done.
C7_Witness ==
    /\ operation.kind \in Mutations
    /\ opLog.called = "false"
    /\ opLog.seen.state = "Done"
    /\ opLog.last = ReadyErr

C10_SingleConsumption ==
    /\ opLog.takes <= 1
    /\ opLog.oks <= 1
    /\ opLog.oks = opLog.takes
    /\ opLog.oks = 1 => result.value = None
    /\ (opLog.oks = 1 /\ ~IsReadyOk(opLog.last)) =>
          opLog.last \in {ReadyErr, Panicked}

\* The future was polled again after it had returned its value, with the
\* loop succeeding: the poll unwrapped the empty cell.
C10_Witness ==
    /\ opLog.oks = 1
    /\ opLog.phase = "again"
    /\ opLog.iter = "Success"
    /\ opLog.last = Panicked

\* Requests whose future returns one value or an optional one.
ScalarRequests == {"get_sink_info_by_name", "get_server_info"} \cup Mutations

\* C11: for every scalar or optional request, the poll that resolves the
\* future on finding the operation done, with the callback never invoked
\* with an item and the error flag clear, returns a value (the absent one)
\* and does not unwind on an empty cell.
C11_Original ==
    (/\ operation.kind \in ScalarRequests
     /\ opLog.phase = "resolved"
     /\ opLog.seen.state = "Done"
     /\ opLog.items = << >>
     /\ opLog.called = "not called"
     /\ ~opLog.seen.cell.error) =>
        /\ IsReadyOk(opLog.last)
        /\ opLog.last # Panicked

(***************************************************************************)
(* Claims about disconnecting and dropping a Context.                      *)
(***************************************************************************)
\* The states of a connection that is being set up or is in use.
GoodStates == {"Connecting", "Authorizing", "SettingName", "Ready"}

\* C12: once a Context is dropped its connection is disconnected, whatever
\* state it was dropped in and whatever was built from it: the state is the
\* one disconnect leaves (Terminated for a connection that was being set up
\* or ready, the state it had otherwise) and stays so; disconnecting twice
\* gives the state disconnecting once gives.
C12_DisconnectOnDrop ==
    /\ \A c \in Contexts :
          contexts[c].owner = "dropped" =>
              /\ contexts[c].state \notin GoodStates
              /\ contexts[c].state = ContextDisconnect(contexts[c].droppedIn)
              /\ contexts[c].droppedIn \in GoodStates =>
                    contexts[c].state = "Terminated"
    /\ \A s \in ContextStates :
          ContextDisconnect(ContextDisconnect(s)) = ContextDisconnect(s)

\* The Context was dropped on a ready connection while its ContextFuture
\* had not resolved, an operation was running and a Subscription was alive.
C12_Witness ==
    /\ contexts["a"].owner = "dropped"
    /\ contexts["a"].droppedIn = "Ready"
    /\ contexts["a"].state = "Terminated"
    /\ ctxLog["a"].last = Pending
    /\ operation.state = "Running"
    /\ Len(subs) >= 1

(***************************************************************************)
(* Claims about waking the task.                                           *)
(***************************************************************************)
\* A future or the stream returned Pending in its last poll.
SomePending ==
    \/ ctxLog["a"].last = Pending
    \/ opLog.last = Pending
    \/ \E i \in 1..Len(subs) : subLog[i].last = Pending

\* The task's waker was invoked, or a closure that invokes it is queued.
WakeScheduled == woken \/ idle > 0

\* The future of connection "a" or of the operation has resolved.
ContextFutureResolved == ctxLog["a"].last \in {ReadyOk(Unit), ReadyErr}
OperationFutureResolved == opLog.last \notin {NotPolled, Pending}

\* C13: a poll that returns Pending has scheduled a wake of the task (a
\* ContextFuture or Subscription poll queued one more idle closure, an
\* OperationFuture poll invoked the waker), so a wake is outstanding
\* whenever something is pending; and with a fair host loop and executor
\* the ContextFuture resolves once the connection is ready, failed or
\* terminated, the OperationFuture resolves once the operation is done or
\* cancelled, and the stream yields another item once its queue is
\* non-empty and it has not ended.
C13_NoLostWakeup ==
    /\ [](SomePending => WakeScheduled)
    /\ [][(ContextFuturePoll("a") /\ ctxLog'["a"].last = Pending)
            => idle' = idle + 1]_vars
    /\ [][(Len(subs) = 1 /\ SubscriptionPollNext(1) /\ subLog'[1].last = Pending)
            => idle' = idle + 1]_vars
    /\ [][(OperationFuturePoll /\ opLog'.last = Pending) => woken']_vars
    /\ (contexts["a"].state \in {"Ready", "Failed", "Terminated"})
          ~> ContextFutureResolved
    /\ (operation.state \in {"Done", "Cancelled"}) ~> OperationFutureResolved
    /\ \A n \in 0..MaxEvents :
          (/\ Len(subs) = 1
           /\ ~subs[1].error_returned
           /\ Unwrap(subs[1].events.value) # << >>
           /\ Len(subLog[1].yielded) = n)
             ~> (Len(subs) = 1 /\ Len(subLog[1].yielded) > n)

\* The operation future returned Pending and resolved later, and the
\* stream, having yielded an item, waits for the next one with a wake
\* queued on the host loop.
C13_Witness ==
    /\ opLog.pendingAt # None
    /\ IsReadyOk(opLog.last)
    /\ Len(subs) = 1
    /\ Len(subLog[1].yielded) >= 1
    /\ subLog[1].last = Pending
    /\ idle > 0 /\ ~woken

(***************************************************************************)
(* More claims about the subscription stream.                              *)
(***************************************************************************)
\* C14: poll_next returns the end of the stream only after the Err item
\* was yielded by an earlier poll; on a subscription whose error flag is
\* clear every poll returns an Ok event or Pending, whatever number of
\* events was delivered before and also when the queue is empty.
C14_UnboundedStream ==
    \A i \in 1..Len(subs) :
        /\ subLog[i].last = ReadyNone =>
              /\ ErrCount(subLog[i].yielded) = 1
              /\ subs[i].error_returned
        /\ ~subs[i].events.error =>
              /\ subLog[i].last = NotPolled \/ subLog[i].last = Pending
                    \/ IsReadyOk(subLog[i].last)
              /\ ErrCount(subLog[i].yielded) = 0
              /\ ~subs[i].error_returned

\* Every event the library delivered was yielded, and the next poll found
\* the queue empty and returned Pending.
C14_Witness ==
    \E i \in 1..Len(subs) :
        /\ ~subs[i].events.error
        /\ Len(subLog[i].yielded) = MaxEvents
        /\ Unwrap(subs[i].events.value) = << >>
        /\ subLog[i].last = Pending

(***************************************************************************)
(* More claims about connections.                                          *)
(***************************************************************************)
\* C15: the step that drops one Context, in whatever state its connection
\* is, leaves every other connection and the history of its ContextFuture
\* as they were; and each poll of a ContextFuture returns the result its
\* own connection's state determines, and the same value for the same
\* state on every connection.
C15_NoLeakage ==
    /\ [][\A c \in Contexts :
            (contexts[c].owner = "alive" /\ contexts'[c].owner = "dropped") =>
                \A d \in Contexts \ {c} :
                    /\ contexts'[d] = contexts[d]
                    /\ ctxLog'[d] = ctxLog[d]]_vars
    /\ [](\A c, d \in Contexts :
            (ctxLog[c].read # "not polled" /\ ctxLog[c].read = ctxLog[d].read) =>
                ctxLog[c].last = ctxLog[d].last)
    /\ [](\A d \in Contexts :
            ctxLog[d].read = "Ready" => ctxLog[d].last = ReadyOk(Unit))

\* Connection "a" was dropped while connecting and its future then failed;
\* the future of connection "b" resolved to Ok on a ready connection.
C15_Witness ==
    /\ contexts["a"].droppedIn = "Connecting"
    /\ ctxLog["a"].last = ReadyErr
    /\ contexts["b"].owner = "alive"
    /\ contexts["b"].state = "Ready"
    /\ ctxLog["b"].last = ReadyOk(Unit)

(***************************************************************************)
(* More claims about the operation future.                                 *)
(***************************************************************************)
\* C16: where only the polls iterate the loop, the operation state a poll
\* with a successful iteration has read is the state that iteration left:
\* the poll returned Pending exactly when the operation is still Running
\* after it, so a poll whose own iteration ended the operation resolved in
\* that same poll; and a list future that resolved on a completed list
\* returned every item delivered, the ones of that iteration included.
C16_IterateThenCheck ==
    (operation.kind # "none" /\ opLog.iter = "Success") =>
        /\ opLog.seen.state = operation.state
        /\ opLog.last = Pending <=> operation.state = "Running"
        /\ operation.state # "Running" => opLog.phase \in {"resolved", "again"}
        /\ (/\ operation.kind = "get_sink_info_list"
            /\ operation.state = "Done"
            /\ opLog.phase = "resolved"
            /\ opLog.eol # "Error") =>
              opLog.last = ReadyOk(opLog.items)

\* The first poll of a list future delivered an item and the end of the
\* operation in its one iteration, and returned the item.
C16_Witness ==
    /\ operation.kind = "get_sink_info_list"
    /\ opLog.phase = "resolved"
    /\ opLog.pendingAt = None
    /\ opLog.iter = "Success"
    /\ Len(opLog.items) = 1
    /\ opLog.last = ReadyOk(opLog.items)

\* The list notification End.
EndOfList == <<"End", Unit>>

\* The step delivers End to a list request and nothing else, and leaves the
\* operation running.
EndDelivered ==
    /\ operation.kind \in ListRequests
    /\ opLog.eol = "no" /\ opLog'.eol = "End"
    /\ opLog'.items = opLog.items
    /\ operation'.state = "Running"

\* C17 as stated: End changes neither the value nor the error flag of the
\* cell, a list future polled after End while the operation is still
\* Running has returned Pending, and the future has resolved only if the
\* operation is Done or Cancelled.
C17_Original ==
    /\ [][EndDelivered => result' = result]_vars
    /\ []((/\ operation.kind \in ListRequests
           /\ opLog.eol = "End"
           /\ operation.state = "Running"
           /\ opLog.last # NotPolled) => opLog.last = Pending)
    /\ []((operation.kind \in ListRequests
              /\ opLog.last \notin {NotPolled, Pending})
            => operation.state \in {"Done", "Cancelled"})

\* C17, amended: End changes neither the value nor the error flag of the
\* cell; a list future polled after End while the operation is still
\* Running, in a poll whose loop step succeeded, has returned Pending; and
\* a list future has resolved only if its last poll found the operation
\* Done or Cancelled or its loop step failed.
C17_EndDoesNotComplete ==
    /\ [][EndDelivered => result' = result]_vars
    /\ [](operation.kind = "get_sink_info_list" =>
              SinkInfoListCallback(result, EndOfList) = result)
    /\ [](operation.kind = "get_sink_info_by_name" =>
              SinkInfoByNameCallback(result, EndOfList) = result)
    /\ []((/\ operation.kind \in ListRequests
           /\ opLog.eol = "End"
           /\ operation.state = "Running"
           /\ opLog.iter = "Success") => opLog.last = Pending)
    /\ []((operation.kind \in ListRequests
              /\ opLog.last \notin {NotPolled, Pending})
            => \/ opLog.seen.state \in {"Done", "Cancelled"}
               \/ LoopFailed)

\* A by-name request has received its item and End, its operation is still
\* running, and the poll returned Pending.
C17_Witness ==
    /\ operation.kind = "get_sink_info_by_name"
    /\ opLog.eol = "End"
    /\ Len(opLog.items) = 1
    /\ IsSome(Unwrap(result.value))
    /\ operation.state = "Running"
    /\ opLog.iter = "Success"
    /\ opLog.last = Pending

\* The events queued in subscription i.
Queue(i) == Unwrap(subs[i].events.value)

\* C18: a poll_next that finds the queue's error flag set yields the Err
\* item (the end of the stream once the Err item was yielded) and leaves
\* the queued events where they are, so that no event is yielded from then
\* on; a poll_next yields an event only with the error flag clear, and then
\* it yields the oldest event of the queue and removes that one event.
C18_ErrorPrecedence ==
    [][\A i \in 1..Len(subs) :
          SubscriptionPollNext(i) =>
              /\ subs[i].events.error =>
                    /\ subLog'[i].last =
                          (IF subs[i].error_returned THEN ReadyNone ELSE ReadyErr)
                    /\ subs'[i].events = subs[i].events
                    /\ OkEvents(subLog'[i].yielded) = OkEvents(subLog[i].yielded)
              /\ IsReadyOk(subLog'[i].last) =>
                    /\ ~subs[i].events.error
                    /\ Queue(i) # << >>
                    /\ subLog'[i].last = ReadyOk(Head(Queue(i)))
                    /\ subs'[i].events.value = Some(Tail(Queue(i)))
              /\ (~subs[i].events.error /\ Queue(i) # << >>) =>
                    IsReadyOk(subLog'[i].last)]_vars

\* One event was yielded, then the enable request was rejected with two
\* events queued: the next poll yielded the Err item and the two events
\* stay in the queue.
C18_Witness ==
    \E i \in 1..Len(subs) :
        /\ subs[i].events.error
        /\ Len(subLog[i].yielded) = 2
        /\ IsReadyOk(subLog[i].yielded[1])
        /\ subLog[i].yielded[2] = ReadyErr
        /\ Len(Unwrap(subs[i].events.value)) = 2

\* The last poll failed because it found the operation done with the
\* error flag set.
FailedOnError ==
    /\ opLog.last = ReadyErr
    /\ opLog.seen.state = "Done"
    /\ opLog.seen.cell.error

\* C19: once the operation is done with the error flag set, the cell and
\* the operation stay as they are, whatever is polled; every poll that
\* finds this, its loop step succeeding, returns failure and leaves the
\* cell as it found it, the first such poll and the ones after it alike; no
\* value was ever taken or returned, and no poll unwinds.
C19_RepollAfterFailure ==
    /\ [][(operation.state = "Done" /\ result.error) =>
              (operation'.state = "Done" /\ result' = result)]_vars
    /\ []((opLog.seen.state = "Done" /\ opLog.seen.cell.error) =>
              /\ opLog.last = ReadyErr
              /\ result = opLog.seen.cell)
    /\ []((operation.state = "Done" /\ result.error) =>
              /\ opLog.oks = 0 /\ opLog.takes = 0
              /\ ~IsReadyOk(opLog.last)
              /\ opLog.last # Panicked)

\* A list future that has an item in its cell and the error flag set was
\* polled again after it had resolved: it failed again and the item is
\* still in the cell.
C19_Witness ==
    /\ operation.kind = "get_sink_info_list"
    /\ opLog.phase = "again"
    /\ opLog.iter = "Success"
    /\ FailedOnError
    /\ result.error
    /\ Len(Unwrap(result.value)) = 1

\* Both subscriptions exist before and after the step.
BothSubscribed == Len(subs) = 2 /\ Len(subs') = 2

\* C20: once subscribe was called a second time, a change notification is
\* appended to the queue of the second Subscription only: the callback of
\* the first is never invoked again and its queue only shrinks, so a poll of
\* the first that finds its queue drained returns Pending (or its own Err
\* item or end of stream); and no step delivers an event to both queues.
C20_SecondSubscribeReplaces ==
    /\ [](Len(subs) = 2 => subscribe_callback = 2)
    /\ [][BothSubscribed =>
              /\ subLog'[1].invoked = subLog[1].invoked
              /\ Len(Unwrap(subs'[1].events.value))
                    <= Len(Unwrap(subs[1].events.value))
              /\ \A e \in Events :
                    ChangeNotification(e) =>
                        /\ subLog'[2].invoked = Append(subLog[2].invoked, e)
                        /\ subs'[1] = subs[1]]_vars
    /\ [][(BothSubscribed /\ SubscriptionPollNext(1)
              /\ Unwrap(subs[1].events.value) = << >>) =>
              subLog'[1].last \in {Pending, ReadyErr, ReadyNone}]_vars
    /\ [](Len(subs) = 2 =>
              Len(subLog[1].invoked) + Len(subLog[2].invoked) = TotalInvoked(subLog))

\* The first Subscription received one event before the second subscribe
\* and the second received two after it; the first yielded its event and
\* its next poll returned Pending.
C20_Witness ==
    /\ Len(subs) = 2
    /\ Len(subLog[1].invoked) = 1
    /\ Len(subLog[2].invoked) = 2
    /\ Len(subLog[1].yielded) = 1
    /\ subLog[1].last = Pending
    /\ Len(Unwrap(subs[2].events.value)) = 2

(***************************************************************************)
(* Claims about a ContextFuture that outlives its Context.                 *)
(***************************************************************************)
\* The ContextFuture of connection "a" exists and has not resolved.
Unresolved == contexts["a"].future /\ ctxLog["a"].last \in {NotPolled, Pending}

=============================================================================
